---- MODULE Spec2Model ----
(***************************************************************************)
(* Model of zbximport: one-way reconciliation of Zabbix hosts (target)     *)
(* against GLPI network equipment (source).                                *)
(*                                                                         *)
(* A host name is a sequence of parts: <<"h1">> is the string "h1" and     *)
(* <<"h1","h2">> is the string "h1---h2".  Source records are keyed by     *)
(* name (a snapshot is a mapping name -> record, spec section 3), target   *)
(* hosts are keyed by their unique Zabbix host name.                       *)
(***************************************************************************)
EXTENDS Integers, Sequences, FiniteSets, TLC

\* ---------------------------------------------------------------- bounds
MaxRuns == 2        \* runs of the script in one behaviour
MaxEvents == 1      \* events of the environment in one behaviour: a target
                    \* call that fails, or a change made by somebody else

\* ------------------------------------------------------------- constants
\* mtime given to a freshly made marker file: 424242 s after the epoch, which
\* is before every date_mod; it is the zero of the model's clock
LAST_IMPORT_FILE_MAGIC_TUPLE == 0
Absent == -1                        \* the marker file does not exist
PROXY_LIST == {"p1", "p2", "p3"}    \* [proxy-list] of config.ini
ZabbixProxies == {"zbx-p1", "zbx-p2"}  \* proxies that exist in Zabbix
Names == {<<"h1">>, <<"h2">>, <<"h1", "h2">>, <<"h1", "h3">>}
DevNames == {<<"h1">>, <<"h2">>}
NoDev == [none |-> TRUE]
NoHost == [none |-> TRUE]
Undefined == "undefined"            \* a Python name that was never assigned
None == "None"
Categories == {"ip_addr", "zbx_proxy", "groups_id", "domains_id", "dns_name"}

\* ------------------------------------------------------------- variables
VARIABLES
  glpi,                  \* source system: name -> network equipment record
  zbx,                   \* target system: host name -> host record
  marker,                \* mtime of LAST_IMPORT_FILE
  now,                   \* wall clock
  pc,                    \* position of the script
  global_no_sort, proxies_with_hosts, all_zabbix_proxies,
  zabbix_hosts_list,     \* per proxy, the host names the partition loop got
  global_to_delete, global_to_create, global_to_update, global_temp_list,
  created_hosts_counter, deleted_hosts_counter, updated_hosts_counter,
  removed_zbx_hosts, added_zbx_hosts, updated_zbx_host,
  update_rest,           \* part of global_to_update the update loop has not reached
  calls,                 \* calls this run has issued to the target, errors it logged
  runNo, events,         \* bounded counters of the behaviour
  prev,                  \* what the previous run left behind
  differ                 \* a pyzabbix.DictDiffer: its two dictionaries and its sets

srcVars == <<glpi>>
tgtVars == <<zbx>>
planVars == <<global_no_sort, proxies_with_hosts, all_zabbix_proxies,
              zabbix_hosts_list, global_to_delete, global_to_create, global_to_update>>
applyVars == <<global_temp_list, created_hosts_counter, deleted_hosts_counter,
               updated_hosts_counter, removed_zbx_hosts, added_zbx_hosts,
               updated_zbx_host, update_rest>>
vars == <<glpi, zbx, marker, now, pc, global_no_sort, proxies_with_hosts,
          all_zabbix_proxies, zabbix_hosts_list, global_to_delete, global_to_create,
          global_to_update, global_temp_list, created_hosts_counter,
          deleted_hosts_counter, updated_hosts_counter, removed_zbx_hosts,
          added_zbx_hosts, updated_zbx_host, update_rest, calls, runNo, events,
          prev, differ>>

\* ------------------------------------------------- lists of names as bags
\* The script's global lists are built from Python sets, whose iteration
\* order is arbitrary; a list is modelled by the number of times each name
\* occurs in it.
EmptyList == [n \in Names |-> 0]
ListSet(l) == {n \in Names : l[n] > 0}
ListLen(l) == l[<<"h1">>] + l[<<"h2">>] + l[<<"h1", "h2">>] + l[<<"h1", "h3">>]
ListExtend(l, S) == [n \in Names |-> IF n \in S THEN l[n] + 1 ELSE l[n]]
ListAppend(l, x) == [l EXCEPT ![x] = @ + 1]
ListRemove(l, x) == [l EXCEPT ![x] = @ - 1]

\* "---" in i        and        x.split("---")[0]
IsComposite(n) == Len(n) > 1
FirstPart(n) == <<n[1]>>

ZbxName(p) == "zbx-" \o p

\* ------------------------------------------------------ the source system
NoneName == <<"None">>              \* str(None) of a missing network name
PortKeys == {"NetworkPortAlias", "NetworkPortEthernet"}

Port(n, ip) == [name |-> n, ip |-> ip, fqdn |-> "d1"]
OnePort(n) == << [key |-> "NetworkPortEthernet", ports |-> <<Port(n, "ip1")>>] >>
Device(net, mod, ports, bad) ==
  [networks_id |-> net, date_mod |-> mod, is_template |-> 0, is_deleted |-> 0,
   groups_id |-> "g1", domains_id |-> "t1", ports |-> ports, malformed |-> bad]

\* one pass of "for alias in network_item["_networkports"][key]"
RECURSIVE ScanAliases(_, _, _)
ScanAliases(base, aliases, i) ==
  IF i > Len(aliases) THEN << >>
  ELSE LET a == aliases[i]
           rest == ScanAliases(base, aliases, i + 1)
       IN IF a.ip = None \/ a.name = NoneName
          THEN rest
          ELSE << [base EXCEPT !.host_name = a.name,
                                !.dns_name = <<a.name, a.fqdn>>,
                                !.ip_addr = a.ip] >> \o rest

\* "for key in network_item["_networkports"].keys()": multi_iface is set
\* back to 0 at every key, so it ends as the count of the last key
RECURSIVE ScanKeys(_, _, _, _, _)
ScanKeys(base, ports, k, to_return, multi_iface) ==
  IF k > Len(ports) THEN [to_return |-> to_return, multi_iface |-> multi_iface]
  ELSE LET found == IF ports[k].key \in PortKeys
                    THEN ScanAliases(base, ports[k].ports, 1) ELSE << >>
       IN ScanKeys(base, ports, k + 1, to_return \o found, Len(found))

MultiFlag(multi_iface) == multi_iface > 1

\* GlpiConnector.get_item_parameters, on the live source.  The result is
\* [error, items]; the caller sees a dict when exactly one item comes back
\* and a list otherwise.
get_item_parameters(n) ==
  IF glpi[n] = NoDev THEN [error |-> "GlpiConnectorException", items |-> << >>]
  ELSE IF glpi[n].malformed THEN [error |-> "KeyError", items |-> << >>]
  ELSE LET d == glpi[n]
           base == [name |-> n, host_name |-> n, dns_name |-> <<n, "d1">>,
                    ip_addr |-> "ip1", zbx_proxy |-> ZbxName(d.networks_id),
                    groups_id |-> d.groups_id, domains_id |-> d.domains_id,
                    multi_interface |-> FALSE]
           r == ScanKeys(base, d.ports, 1, << >>, 0)
       IN [error |-> "none",
           items |-> [i \in 1..Len(r.to_return) |->
                        [r.to_return[i] EXCEPT
                           !.multi_interface = MultiFlag(r.multi_iface)]]]

RECURSIVE ConstructFrom(_, _)
ConstructFrom(order, i) ==
  IF i > Len(order) THEN [error |-> "none", items |-> << >>]
  ELSE LET host == IF order[i] \in DOMAIN global_no_sort
                   THEN get_item_parameters(order[i])
                   ELSE [error |-> "KeyError", items |-> << >>]
       IN IF host.error # "none" THEN host
          ELSE LET rest == ConstructFrom(order, i + 1)
               IN IF rest.error # "none" THEN rest
                  ELSE [error |-> "none", items |-> host.items \o rest.items]

\* GlpiConnector.construct_list over the names of iter_dict taken in `order`
construct_list(order) == ConstructFrom(order, 1)

\* every order in which a list holding the names of bag l can be iterated
Orders(l) ==
  {o \in UNION {[1..k -> Names] : k \in {ListLen(l)}} :
     \A n \in Names : Cardinality({i \in DOMAIN o : o[i] = n}) = l[n]}

\* ------------------------------------------------------ the target system
ZabbixGroups == {"g1", "g2"}       \* host groups that exist in Zabbix
ZabbixTemplates == {"t1", "t2"}    \* templates that exist in Zabbix

Host(h, proxy, ip) ==
  [proxy |-> proxy, ip_addr |-> ip, dns_name |-> <<h, "d1">>,
   groups_id |-> "g1", domains_id |-> "t1"]

\* ---------------------------------------------------------------- Init
\* lookup: host.get calls of the delete phase; delete: the id lists given to
\* host.delete; create: names given to host.create; update: <<name, category>>
\* of the update calls; succeeded: mutating calls the target carried out;
\* failed: names with an update call that failed; src_changed: the source was
\* changed since this run started; not_in_zabbix: the partitions reported as
\* missing in Zabbix; proxy_error: host.get of the proxy list failed
NoCalls == [lookup |-> 0, delete |-> {}, create |-> EmptyList, update |-> {},
            succeeded |-> 0, failed |-> {}, src_changed |-> FALSE,
            not_in_zabbix |-> {}, proxy_error |-> FALSE]
\* how the previous run ended, the marker it left, whether the source was
\* changed since it started, the names whose update call failed in it
NoPrev == [status |-> "none", marker |-> Absent, src_changed |-> FALSE,
           failed |-> {}]
\* no DictDiffer has been constructed
NoDiffer == [current_dict |-> << >>, past_dict |-> << >>, constructed |-> FALSE,
             added |-> {}, removed |-> {}, changed |-> {}, unchanged |-> {}]

ResetRun ==
  /\ global_no_sort = << >>
  /\ proxies_with_hosts = [p \in PROXY_LIST |-> << >>]
  /\ all_zabbix_proxies = {}
  /\ zabbix_hosts_list = [p \in PROXY_LIST |-> {}]
  /\ global_to_delete = EmptyList
  /\ global_to_create = EmptyList
  /\ global_to_update = EmptyList
  /\ global_temp_list = << >>
  /\ created_hosts_counter = 0
  /\ deleted_hosts_counter = 0
  /\ updated_hosts_counter = 0
  /\ removed_zbx_hosts = Undefined
  /\ added_zbx_hosts = Undefined
  /\ updated_zbx_host = Undefined
  /\ update_rest = EmptyList
  /\ calls = NoCalls

TwoPorts(n1, n2) ==
  << [key |-> "NetworkPortEthernet",
      ports |-> <<Port(n1, "ip1"), Port(n2, "ip1")>>] >>

\* two interfaces in two port categories
SplitPorts(n1, n2) ==
  << [key |-> "NetworkPortAlias", ports |-> <<Port(n1, "ip1")>>],
     [key |-> "NetworkPortEthernet", ports |-> <<Port(n2, "ip1")>>] >>

\* What "h2" is in the source snapshots the runs start from: a plain device
\* of p1 or p3, or in p1 a device without group ("0"), without template
\* ("0"), with a group that Zabbix does not have, or whose only interface
\* has no address.
H2Devices ==
  {Device(net, 1, OnePort(<<"h2">>), FALSE) : net \in {"p1", "p3"}}
    \cup {[Device("p1", 1, OnePort(<<"h2">>), FALSE) EXCEPT !.groups_id = g] :
            g \in {"0", "g3"}}
    \cup {[Device("p1", 1, OnePort(<<"h2">>), FALSE) EXCEPT !.domains_id = "0"],
          Device("p1", 1, << [key |-> "NetworkPortEthernet",
                             ports |-> <<Port(<<"h2">>, None)>>] >>, FALSE)}

\* Source snapshots the runs start from.  "h1" is a plain device in any
\* partition, or in p1 a device whose only interface is "h1---h2", one with
\* two interfaces that are both named "h1", one with interfaces "h1" and
\* "h1---h2", one with interfaces "h1---h2" and "h1---h3" in one port
\* category or in two, or one whose port data is malformed; "h2" is one of
\* H2Devices, the plain one of p1 when "h1" has several interfaces or
\* malformed port data.
InitDevices ==
  {g \in [DevNames -> {NoDev} \cup H2Devices \cup {Device(net, mod, ports, bad) :
                                      net \in PROXY_LIST, mod \in {1, 2},
                                      ports \in {OnePort(<<"h1">>),
                                                 OnePort(<<"h2">>),
                                                 OnePort(<<"h1", "h2">>),
                                                 TwoPorts(<<"h1">>, <<"h1">>),
                                                 TwoPorts(<<"h1">>, <<"h1", "h2">>),
                                                 TwoPorts(<<"h1", "h2">>, <<"h1", "h3">>),
                                                 SplitPorts(<<"h1", "h2">>, <<"h1", "h3">>)},
                                      bad \in BOOLEAN}] :
     LET d1 == g[<<"h1">>]
         d2 == g[<<"h2">>]
     IN /\ d1 # NoDev => d1 \notin H2Devices
        /\ d1 # NoDev =>
             \/ /\ d1.ports = OnePort(<<"h1">>) /\ ~d1.malformed
                /\ d1.date_mod = 2 => d1.networks_id = "p1"
             \/ /\ d1.networks_id = "p1" /\ d1.date_mod = 1
                /\ d1.ports # OnePort(<<"h2">>)
                /\ d1.malformed => d1.ports = OnePort(<<"h1">>)
        /\ d2 # NoDev => d2 \in H2Devices
        /\ (d1 # NoDev /\ (d1.malformed \/ Len(d1.ports) > 1
                                        \/ Len(d1.ports[1].ports) > 1))
             => d2 \in {NoDev, Device("p1", 1, OnePort(<<"h2">>), FALSE)}}

\* Target states the runs start from.
InitHosts ==
  {z \in [Names -> {NoHost} \cup {Host(h, p, ip) : h \in Names,
                                                   p \in ZabbixProxies,
                                                   ip \in {"ip1", "ip2"}}] :
     /\ \A h \in Names : z[h] # NoHost => z[h].dns_name[1] = h
     /\ z[<<"h1">>] # NoHost /\ z[<<"h1">>].ip_addr = "ip2"
          => z[<<"h1">>].proxy = "zbx-p1"
     /\ z[<<"h2">>] # NoHost => z[<<"h2">>] = Host(<<"h2">>, "zbx-p1", "ip1")
     /\ z[<<"h1", "h2">>] # NoHost => z[<<"h1", "h2">>].ip_addr = "ip1"
     /\ z[<<"h1", "h3">>] = NoHost}

Init ==
  /\ glpi \in InitDevices
  /\ zbx \in InitHosts
  /\ marker \in {Absent, 1}
  /\ now = 2
  /\ pc = "idle"
  /\ ResetRun
  /\ runNo = 0
  /\ events = 0
  /\ prev = NoPrev
  /\ differ = NoDiffer

\* ---------------------------------------------------------------- the run
utime_Skipped(mtime, time) == IF mtime = Absent THEN time ELSE mtime

\* zbximport.py 86-88: a missing marker file is created with the magic mtime
utime(mtime, time) ==
  IF mtime = Absent THEN LAST_IMPORT_FILE_MAGIC_TUPLE ELSE mtime

\* zbximport.py 73-89: fresh globals and the marker file
Begin(run, time) ==
  /\ pc \in {"idle", "done", "crashed"}
  /\ runNo' = run
  /\ now' = time
  /\ marker' = utime(marker, time)
  /\ prev' = [status |-> pc, marker |-> marker,
              src_changed |-> calls.src_changed, failed |-> calls.failed]
  /\ global_no_sort' = << >>
  /\ proxies_with_hosts' = [p \in PROXY_LIST |-> << >>]
  /\ all_zabbix_proxies' = {}
  /\ zabbix_hosts_list' = [p \in PROXY_LIST |-> {}]
  /\ global_to_delete' = EmptyList
  /\ global_to_create' = EmptyList
  /\ global_to_update' = EmptyList
  /\ global_temp_list' = << >>
  /\ created_hosts_counter' = 0
  /\ deleted_hosts_counter' = 0
  /\ updated_hosts_counter' = 0
  /\ removed_zbx_hosts' = Undefined
  /\ added_zbx_hosts' = Undefined
  /\ updated_zbx_host' = Undefined
  /\ update_rest' = EmptyList
  /\ calls' = NoCalls
  /\ pc' = "export"
  /\ UNCHANGED <<differ, glpi, zbx, events>>

\* one of the MaxRuns runs that the properties of single runs look at
StartRun == runNo < MaxRuns /\ Begin(runNo + 1, now + 1)

\* zbximport.py 109-114
Selected(d) ==
  d.is_template # 1 /\ d.is_deleted # 1 /\ d.networks_id \in PROXY_LIST

selected_devices == {n \in DevNames : glpi[n] # NoDev /\ Selected(glpi[n])}

\* zbximport.py 96-134: the source snapshot
GlpiExport ==
  /\ pc = "export"
  /\ global_no_sort' = [n \in selected_devices |->
                          [id |-> n, date_mod |-> glpi[n].date_mod]]
  /\ proxies_with_hosts' =
       [p \in PROXY_LIST |->
          [n \in {m \in selected_devices : glpi[m].networks_id = p} |->
             [id |-> n, date_mod |-> glpi[n].date_mod]]]
  /\ pc' = "fetch"
  /\ UNCHANGED <<differ, glpi, zbx, marker, now, all_zabbix_proxies, zabbix_hosts_list,
                 global_to_delete, global_to_create, global_to_update,
                 applyVars, calls, runNo, events, prev>>

\* zbximport.py 142-163 with pyzabbix.get_zabbix_items("proxy")
ZabbixFetch ==
  /\ pc = "fetch"
  /\ all_zabbix_proxies' = ZabbixProxies
  /\ pc' = "partition"
  /\ UNCHANGED <<differ, glpi, zbx, marker, now, global_no_sort, proxies_with_hosts,
                 zabbix_hosts_list, global_to_delete, global_to_create,
                 global_to_update, applyVars, calls, runNo, events, prev>>

ZabbixFetchFails_KeepsProxies ==
  /\ pc = "fetch"
  /\ events < MaxEvents
  /\ events' = events + 1
  /\ all_zabbix_proxies' = ZabbixProxies
  /\ calls' = [calls EXCEPT !.proxy_error = TRUE]
  /\ \E caught \in BOOLEAN : pc' = IF caught THEN "partition" ELSE "crashed"
  /\ UNCHANGED <<differ, glpi, zbx, marker, now, global_no_sort, proxies_with_hosts,
                 zabbix_hosts_list, global_to_delete, global_to_create,
                 global_to_update, applyVars, runNo, prev>>

\* pyzabbix.py 129-163, 200-211: host.get of the proxy list fails.  A
\* ZabbixAPIException is caught in get_zabbix_items, which then returns no
\* proxy; an error of the HTTP request itself is caught nowhere and ends the
\* run at zbximport.py 151.
ZabbixFetchFails ==
  /\ pc = "fetch"
  /\ events < MaxEvents
  /\ events' = events + 1
  /\ all_zabbix_proxies' = {}
  /\ calls' = [calls EXCEPT !.proxy_error = TRUE]
  /\ \E caught \in BOOLEAN : pc' = IF caught THEN "partition" ELSE "crashed"
  /\ UNCHANGED <<differ, glpi, zbx, marker, now, global_no_sort, proxies_with_hosts,
                 zabbix_hosts_list, global_to_delete, global_to_create,
                 global_to_update, applyVars, runNo, prev>>

\* pyzabbix.get_hosts_from_proxy
get_hosts_from_proxy(proxy_id) ==
  {h \in Names : zbx[h] # NoHost /\ zbx[h].proxy = proxy_id}

IsStale_AtOrAfter(item_last_mod_time, last_import_file_mod_time) ==
  item_last_mod_time >= last_import_file_mod_time

\* zbximport.py 213
IsStale(item_last_mod_time, last_import_file_mod_time) ==
  item_last_mod_time > last_import_file_mod_time

KnownProxies_All == PROXY_LIST

\* zbximport.py 169
KnownProxies == {p \in PROXY_LIST : ZbxName(p) \in all_zabbix_proxies}

\* zbximport.py 178-187, for one proxy whose hosts in Zabbix are hosts
to_be_same_keys(p, hosts) == DOMAIN proxies_with_hosts[p] \cap hosts
to_be_deleted_keys(p, hosts) == hosts \ to_be_same_keys(p, hosts)
to_be_created_keys(p, hosts) ==
  DOMAIN proxies_with_hosts[p] \ to_be_same_keys(p, hosts)
to_be_updated_keys_AnyPartition(p, hosts) ==
  {n \in DOMAIN global_no_sort \cap hosts :
     IsStale(global_no_sort[n].date_mod, marker)}

\* zbximport.py 198-214
to_be_updated_keys(p, hosts) ==
  {n \in to_be_same_keys(p, hosts) :
     IsStale(proxies_with_hosts[p][n].date_mod, marker)}

\* the number of proxies of the loop that put n on a list
Occurrences(n, S(_, _)) ==
  Cardinality({p \in KnownProxies :
                 n \in S(p, get_hosts_from_proxy(ZbxName(p)))})

\* zbximport.py 166-216: the loop over proxies_with_hosts
Partition ==
  /\ pc = "partition"
  /\ zabbix_hosts_list' = [p \in PROXY_LIST |->
                             IF p \in KnownProxies
                             THEN get_hosts_from_proxy(ZbxName(p)) ELSE {}]
  /\ global_to_delete' = [n \in Names |-> Occurrences(n, to_be_deleted_keys)]
  /\ global_to_create' = [n \in Names |-> Occurrences(n, to_be_created_keys)]
  /\ global_to_update' = [n \in Names |-> Occurrences(n, to_be_updated_keys)]
  /\ calls' = [calls EXCEPT !.not_in_zabbix = PROXY_LIST \ KnownProxies]
  /\ pc' = "move"
  /\ UNCHANGED <<differ, glpi, zbx, marker, now, global_no_sort, proxies_with_hosts,
                 all_zabbix_proxies, applyVars, runNo, events, prev>>

changed_proxy_hosts_None == {}

\* zbximport.py 219
changed_proxy_hosts == ListSet(global_to_delete) \cap ListSet(global_to_create)

update_after_move_Forgotten == global_to_update

\* zbximport.py 226-228, for every host of changed_proxy_hosts
delete_after_move ==
  [n \in Names |-> IF n \in changed_proxy_hosts THEN global_to_delete[n] - 1
                   ELSE global_to_delete[n]]
create_after_move ==
  [n \in Names |-> IF n \in changed_proxy_hosts THEN global_to_create[n] - 1
                   ELSE global_to_create[n]]
update_after_move ==
  [n \in Names |-> IF n \in changed_proxy_hosts THEN global_to_update[n] + 1
                   ELSE global_to_update[n]]

\* zbximport.py 218-228
MoveResolve ==
  /\ pc = "move"
  /\ global_to_delete' = delete_after_move
  /\ global_to_create' = create_after_move
  /\ global_to_update' = update_after_move
  /\ pc' = "delete"
  /\ UNCHANGED <<differ, glpi, zbx, marker, now, global_no_sort, proxies_with_hosts,
                 all_zabbix_proxies, zabbix_hosts_list, applyVars, calls,
                 runNo, events, prev>>

HasItems_Always(l) == TRUE

\* zbximport.py 231 and 249, pyzabbix 307: the list holds something
HasItems(l) == ListLen(l) > 0

Truthy == "truthy"                 \* a non-empty result of a call
NoneCreated == "[]"                \* the empty list of created hosts

\* zbximport.py 235 and 240
check_del_list == {i \in ListSet(global_to_delete) : IsComposite(i)}
splitted == {FirstPart(x) : x \in check_del_list}
SetList(S) == [n \in Names |-> IF n \in S THEN 1 ELSE 0]

RemoveFound_Nothing(l, test, i) == l

\* zbximport.py 244-246
RECURSIVE RemoveFound(_, _, _)
RemoveFound(l, test, i) ==
  IF i > Len(test) THEN l
  ELSE RemoveFound(IF l[test[i].host_name] > 0
                   THEN ListRemove(l, test[i].host_name) ELSE l, test, i + 1)

\* zbximport.py 231-246: multi-interface correction of the delete list
DeleteCorrection ==
  /\ pc = "delete"
  /\ \E order \in Orders(SetList(splitted)) :
       LET test == construct_list(order)
       IN IF HasItems(global_to_delete) /\ test.error # "none"
          THEN /\ pc' = "crashed"
               /\ UNCHANGED global_to_delete
          ELSE /\ pc' = IF HasItems(global_to_delete) THEN "delcall"
                        ELSE "create"
               /\ global_to_delete' = RemoveFound(global_to_delete, test.items, 1)
  /\ UNCHANGED <<differ, glpi, zbx, marker, now, global_no_sort, proxies_with_hosts,
                 all_zabbix_proxies, zabbix_hosts_list, global_to_create,
                 global_to_update, applyVars, calls, runNo, events, prev>>

\* pyzabbix.delete_zbx_hosts 313-315: the hosts the lookup resolves
z_host_del(list_to_delete) ==
  {h \in ListSet(list_to_delete) : zbx[h] # NoHost}

DeleteNothing_Again ==
  /\ \/ pc = "delcall" /\ ~HasItems(global_to_delete)
     \/ pc = "update"
  /\ pc' = IF pc = "update" THEN "delcall" ELSE "create"
  /\ UNCHANGED <<differ, glpi, zbx, marker, now, planVars, applyVars, calls, runNo,
                 events, prev>>

\* zbximport.py 249: nothing is left to delete
DeleteNothing ==
  /\ pc = "delcall"
  /\ ~HasItems(global_to_delete)
  /\ pc' = "create"
  /\ UNCHANGED <<differ, glpi, zbx, marker, now, planVars, applyVars, calls, runNo,
                 events, prev>>

\* zbximport.py 251-256 when host.get of delete_zbx_hosts raises: the
\* exception is logged and "if removed_zbx_hosts" reads an unassigned name
DeleteLookupFails ==
  /\ pc = "delcall"
  /\ HasItems(global_to_delete)
  /\ events < MaxEvents
  /\ events' = events + 1
  /\ calls' = [calls EXCEPT !.lookup = @ + 1]
  /\ pc' = "crashed"
  /\ UNCHANGED <<differ, glpi, zbx, marker, now, planVars, applyVars, runNo, prev>>

\* zbximport.py 249-259 with pyzabbix.delete_zbx_hosts 313-331.  An empty id
\* list is still sent (as "params or {}"); what the target answers to it is
\* its own choice.
DeleteHosts ==
  /\ pc = "delcall"
  /\ HasItems(global_to_delete)
  /\ LET ids == z_host_del(global_to_delete)
     IN \E ok \in BOOLEAN :
          /\ ~ok => (ids = {} \/ events < MaxEvents)
          /\ events' = IF ~ok /\ ids # {} THEN events + 1 ELSE events
          /\ zbx' = IF ok THEN [h \in Names |-> IF h \in ids THEN NoHost ELSE zbx[h]]
                    ELSE zbx
          /\ removed_zbx_hosts' = IF ok THEN Truthy ELSE None
          /\ deleted_hosts_counter' =
               IF ok THEN deleted_hosts_counter + ListLen(global_to_delete)
               ELSE deleted_hosts_counter
          /\ calls' = [calls EXCEPT !.lookup = @ + 1,
                                    !.delete = @ \cup {ids},
                                    !.succeeded = IF ok /\ ids # {} THEN @ + 1 ELSE @]
  /\ pc' = "create"
  /\ UNCHANGED <<differ, glpi, marker, now, planVars, global_temp_list,
                 created_hosts_counter, updated_hosts_counter, added_zbx_hosts,
                 updated_zbx_host, update_rest, runNo, prev>>

\* pyzabbix.create_zbx_hosts 355-367: records that are skipped.  dns_name is
\* net_name + "." + domain, so it is never the string "None".
SkipsCreate(item) ==
  \/ "0" \in {item.groups_id, item.domains_id}
  \/ item.name # item.host_name /\ item.multi_interface = FALSE

\* pyzabbix.create_zbx_hosts 387-389 / 406-408: the dictionary lookups
CreateKeyError(item) ==
  \/ item.groups_id \notin ZabbixGroups
  \/ item.domains_id \notin ZabbixTemplates
  \/ item.zbx_proxy \notin all_zabbix_proxies

\* pyzabbix.create_zbx_hosts 427
Appended(item, new_zabbix_host) == 1

\* pyzabbix.create_zbx_hosts 351-429 from record i on; F holds the positions
\* whose host.create call the target fails.  z is the target so far.
RECURSIVE CreateFrom(_, _, _, _)
CreateFrom(items, i, z, F) ==
  IF i > Len(items)
  THEN [error |-> FALSE, zbx |-> z, created |-> 0, called |-> EmptyList,
        succeeded |-> 0]
  ELSE LET item == items[i]
       IN IF SkipsCreate(item) THEN CreateFrom(items, i + 1, z, F)
          ELSE IF CreateKeyError(item)
          THEN [error |-> TRUE, zbx |-> z, created |-> 0, called |-> EmptyList,
                succeeded |-> 0]
          ELSE LET new_zabbix_host == z[item.host_name] = NoHost /\ i \notin F
                   z2 == IF new_zabbix_host
                         THEN [z EXCEPT ![item.host_name] =
                                 [proxy |-> item.zbx_proxy,
                                  ip_addr |-> item.ip_addr,
                                  dns_name |-> item.dns_name,
                                  groups_id |-> item.groups_id,
                                  domains_id |-> item.domains_id]]
                         ELSE z
               IN CHOOSE result \in
                    {[error |-> r.error, zbx |-> r.zbx,
                      created |-> r.created + Appended(item, new_zabbix_host),
                      called |-> ListAppend(r.called, item.host_name),
                      succeeded |-> r.succeeded
                                      + IF new_zabbix_host THEN 1 ELSE 0] :
                       r \in {CreateFrom(items, i + 1, z2, F)}} : TRUE

create_zbx_hosts(list_of_host_params, F) ==
  CreateFrom(list_of_host_params, 1, zbx, F)

ListSum(l1, l2) == [n \in Names |-> l1[n] + l2[n]]

\* zbximport.py 261-282
CreatePhase ==
  /\ pc = "create"
  /\ \E order \in Orders(global_to_create) :
       \E found \in {construct_list(order)} :
          \E F \in SUBSET {i \in 1..Len(found.items) : ~SkipsCreate(found.items[i])} :
            \E r \in {create_zbx_hosts(found.items, F)} :
               /\ Cardinality(F) <= MaxEvents - events
               /\ found.error # "none" => F = {}
               /\ events' = events + Cardinality(F)
               /\ IF found.error # "none"
                  THEN /\ pc' = "crashed"
                       /\ UNCHANGED <<zbx, global_temp_list, added_zbx_hosts,
                                      created_hosts_counter, calls>>
                  ELSE /\ global_temp_list' = found.items
                       /\ zbx' = r.zbx
                       /\ calls' = [calls EXCEPT
                                      !.create = ListSum(@, r.called),
                                      !.succeeded = @ + r.succeeded]
                       /\ pc' = IF r.error THEN "crashed" ELSE "update"
                       /\ added_zbx_hosts' =
                            IF r.error \/ Len(found.items) = 0
                            THEN added_zbx_hosts
                            ELSE IF r.created > 0 THEN Truthy ELSE NoneCreated
                       /\ created_hosts_counter' =
                            IF r.error THEN created_hosts_counter
                            ELSE created_hosts_counter + r.created
  /\ update_rest' = global_to_update
  /\ UNCHANGED <<differ, glpi, marker, now, planVars, deleted_hosts_counter,
                 updated_hosts_counter, removed_zbx_hosts, updated_zbx_host,
                 runNo, prev>>

\* pyzabbix.get_params_zbx_host
get_params_zbx_host(host_name) ==
  [host_name |-> host_name, dns_name |-> zbx[host_name].dns_name,
   ip_addr |-> zbx[host_name].ip_addr, zbx_proxy |-> zbx[host_name].proxy,
   groups_id |-> zbx[host_name].groups_id,
   domains_id |-> zbx[host_name].domains_id,
   zbx_id |-> host_name, zbx_interface_id |-> host_name]

\* pyzabbix.DictDiffer
DictDiffer_intersect(current_dict, past_dict) ==
  DOMAIN current_dict \cap DOMAIN past_dict
DictDiffer_added(current_dict, past_dict) ==
  DOMAIN current_dict \ DictDiffer_intersect(current_dict, past_dict)
DictDiffer_removed(current_dict, past_dict) ==
  DOMAIN past_dict \ DictDiffer_intersect(current_dict, past_dict)
DictDiffer_changed_All(current_dict, past_dict) ==
  DictDiffer_intersect(current_dict, past_dict)

DictDiffer_changed(current_dict, past_dict) ==
  {i \in DictDiffer_intersect(current_dict, past_dict) :
     past_dict[i] # current_dict[i]}
DictDiffer_unchanged(current_dict, past_dict) ==
  {i \in DictDiffer_intersect(current_dict, past_dict) :
     ~(past_dict[i] # current_dict[i])}

\* pyzabbix.update_zbx_host 491-555: the categories whose "if diff ==" fires
differences(glpi_host, zbx_host) ==
  DictDiffer_changed(glpi_host, zbx_host) \cap Categories

\* pyzabbix.update_zbx_host 512, 525, 537: the dictionary lookups
UpdateKeyError(glpi_host, c) ==
  \/ c = "zbx_proxy" /\ glpi_host.zbx_proxy \notin all_zabbix_proxies
  \/ c = "groups_id" /\ glpi_host.groups_id \notin ZabbixGroups
  \/ c = "domains_id" /\ glpi_host.domains_id \notin ZabbixTemplates

\* the target host after the update calls of the categories in `done`
Updated(host, glpi_host, done) ==
  [proxy |-> IF "zbx_proxy" \in done THEN glpi_host.zbx_proxy ELSE host.proxy,
   ip_addr |-> IF "ip_addr" \in done THEN glpi_host.ip_addr ELSE host.ip_addr,
   dns_name |-> IF "dns_name" \in done THEN glpi_host.dns_name ELSE host.dns_name,
   groups_id |-> IF "groups_id" \in done THEN glpi_host.groups_id
                 ELSE host.groups_id,
   domains_id |-> IF "domains_id" \in done THEN glpi_host.domains_id
                  ELSE host.domains_id]

\* zbximport.py 315: "if updated_zbx_host" with the value the name holds
CountsAsUpdated(val) == val = Truthy

\* zbximport.py 287-318: one pass of the update loop, for host_name.
\* attempted: the categories whose update call is issued (all the changed
\* ones, or those that come before a KeyError); F: the calls that fail.
UpdateHost(host_name) ==
  /\ pc = "update"
  /\ update_rest[host_name] > 0
  /\ update_rest' = ListRemove(update_rest, host_name)
  /\ LET got == IF host_name \in DOMAIN global_no_sort
                THEN get_item_parameters(host_name)
                ELSE [error |-> "KeyError", items |-> << >>]
     IN IF got.error = "KeyError"
        THEN \* zbximport.py 292-296: continue
             /\ pc' = "update"
             /\ UNCHANGED <<zbx, updated_zbx_host, updated_hosts_counter,
                            calls, events>>
        ELSE IF got.error # "none" \/ zbx[host_name] = NoHost
        THEN \* uncaught GlpiConnectorException, or IndexError at pyzabbix 448
             /\ pc' = "crashed"
             /\ UNCHANGED <<zbx, updated_zbx_host, updated_hosts_counter,
                            calls, events>>
        ELSE IF Len(got.items) # 1
        THEN \* a list has no keys(): the exception is logged at 311-312
             /\ pc' = IF updated_zbx_host = Undefined THEN "crashed" ELSE "update"
             /\ updated_hosts_counter' =
                  IF CountsAsUpdated(updated_zbx_host)
                  THEN updated_hosts_counter + 1 ELSE updated_hosts_counter
             /\ UNCHANGED <<zbx, updated_zbx_host, calls, events>>
        ELSE LET glpi_item == got.items[1]
                 zabbix_item == get_params_zbx_host(host_name)
                 diffs == differences(glpi_item, zabbix_item)
                 bad == {c \in diffs : UpdateKeyError(glpi_item, c)}
             IN \E attempted \in SUBSET (diffs \ bad) :
                \E F \in SUBSET attempted :
                  LET val == IF attempted \ F # {} THEN Truthy ELSE None
                      result == IF bad # {} THEN updated_zbx_host ELSE val
                  IN /\ bad = {} => attempted = diffs
                     /\ Cardinality(F) <= MaxEvents - events
                     /\ events' = events + Cardinality(F)
                     /\ zbx' = [zbx EXCEPT ![host_name] =
                                  Updated(@, glpi_item, attempted \ F)]
                     /\ calls' = [calls EXCEPT
                          !.update = @ \cup {<<host_name, c>> : c \in attempted},
                          !.succeeded = @ + Cardinality(attempted \ F),
                          !.failed = IF F # {} THEN @ \cup {host_name} ELSE @]
                     /\ updated_zbx_host' = result
                     /\ pc' = IF result = Undefined THEN "crashed" ELSE "update"
                     /\ updated_hosts_counter' =
                          IF CountsAsUpdated(result)
                          THEN updated_hosts_counter + 1
                          ELSE updated_hosts_counter
  /\ UNCHANGED <<differ, glpi, marker, now, planVars, global_temp_list,
                 created_hosts_counter, deleted_hosts_counter,
                 removed_zbx_hosts, added_zbx_hosts, runNo, prev>>

AnyAction_NoUpdates(created, deleted, updated) ==
  created # 0 \/ deleted # 0

\* zbximport.py 325
AnyAction(created, deleted, updated) ==
  created # 0 \/ deleted # 0 \/ updated # 0

\* zbximport.py 320-334: the marker file is touched when something was done
FinishRun ==
  /\ pc = "update"
  /\ ListLen(update_rest) = 0
  /\ marker' = IF AnyAction(created_hosts_counter, deleted_hosts_counter,
                            updated_hosts_counter)
               THEN now ELSE marker
  /\ pc' = "done"
  /\ UNCHANGED <<differ, glpi, zbx, now, planVars, applyVars, calls, runNo, events, prev>>

\* Somebody edits a source record, between two runs or while a run is under
\* way, just after it has taken its snapshot (zbximport.py 104-134): GLPI
\* stamps date_mod with the time of the change.
SourceChange(n) ==
  /\ pc \in {"fetch", "done", "crashed"}
  /\ events < MaxEvents
  /\ glpi[n] # NoDev
  /\ events' = events + 1
  /\ now' = now + 1
  /\ glpi' = [glpi EXCEPT ![n].date_mod = now + 1,
                          ![n].groups_id = IF @ = "g1" THEN "g2" ELSE "g1"]
  /\ calls' = [calls EXCEPT !.src_changed = TRUE]
  /\ UNCHANGED <<differ, zbx, marker, pc, planVars, applyVars, runNo, prev>>

\* Somebody removes a host from Zabbix while the run is applying its plan.
HostVanishes(h) ==
  /\ pc \in {"delete", "delcall", "create", "update"}
  /\ events < MaxEvents
  /\ zbx[h] # NoHost
  /\ events' = events + 1
  /\ zbx' = [zbx EXCEPT ![h] = NoHost]
  /\ UNCHANGED <<differ, glpi, marker, now, pc, planVars, applyVars, calls, runNo,
                 prev>>

\* the places where the script sends a request to GLPI: zbximport.py 100-104
\* and 134 (session and export), 163 (second session), 242 (delete-set
\* correction), 265 (create phase), 291 (update loop)
GlpiRequest ==
  \/ pc \in {"export", "partition"}
  \/ pc = "delete" /\ HasItems(global_to_delete) /\ check_del_list # {}
  \/ pc = "create" /\ HasItems(global_to_create)
  \/ pc = "update" /\ HasItems(update_rest)

\* GLPI does not answer, or answers 401: requests raises a ConnectionError or
\* pyglpi.do_request / init_session raise GlpiConnectorException.  No call
\* site catches either (the update loop catches KeyError only), so the
\* script ends there.
GlpiRequestFails ==
  /\ GlpiRequest
  /\ events < MaxEvents
  /\ events' = events + 1
  /\ pc' = "crashed"
  /\ UNCHANGED <<differ, glpi, zbx, marker, now, planVars, applyVars, calls, runNo,
                 prev>>

Next ==
  \/ StartRun
  \/ GlpiExport
  \/ ZabbixFetch
  \/ Partition
  \/ MoveResolve
  \/ DeleteCorrection
  \/ DeleteNothing
  \/ DeleteLookupFails
  \/ DeleteHosts
  \/ CreatePhase
  \/ \E host_name \in Names : UpdateHost(host_name)
  \/ FinishRun
  \/ \E n \in DevNames : SourceChange(n)
  \/ \E h \in Names : HostVanishes(h)
  \/ GlpiRequestFails
  \/ ZabbixFetchFails

Spec == Init /\ [][Next]_vars

\* The script is started again and again (a scheduled job).  The runs after
\* the MaxRuns-th are not numbered, and the clock, which only orders the
\* changes of the source against the touches of the marker, is left where
\* it is: no record can be stamped later than a touch that follows it.
RunAgain == runNo = MaxRuns /\ Begin(runNo, now)

\* the steps of the script, as opposed to those of its environment
Script ==
  \/ StartRun
  \/ RunAgain
  \/ GlpiExport
  \/ ZabbixFetch
  \/ Partition
  \/ MoveResolve
  \/ DeleteCorrection
  \/ DeleteNothing
  \/ DeleteLookupFails
  \/ DeleteHosts
  \/ CreatePhase
  \/ \E host_name \in Names : UpdateHost(host_name)
  \/ FinishRun

LiveNext == Next \/ RunAgain

\* The snapshots of Init that the repeated runs start from: "h2" is new in
\* the source, "h1" was modified after the marker or has two composite
\* interfaces, and the target is any of InitHosts without "h2".
LiveInit ==
  /\ Init
  /\ marker = 1
  /\ glpi[<<"h1">>] \in
       {Device("p1", 2, OnePort(<<"h1">>), FALSE),
        Device("p1", 1, TwoPorts(<<"h1", "h2">>, <<"h1", "h3">>), FALSE)}
  /\ glpi[<<"h2">>] = Device("p1", 1, OnePort(<<"h2">>), FALSE)
  /\ zbx[<<"h2">>] = NoHost

\* a started run goes on to its end, and a next run is started after it
LiveSpec == LiveInit /\ [][LiveNext]_vars /\ WF_vars(Script)

\* ------------------------------------------------- pyzabbix.DictDiffer
\* The class on its own: two dictionaries over a few keys and values are
\* handed to the constructor, and the four methods are read off the object.
DifferKeys == {"ip", "dns", "group"}
DifferValues == {"10.0.0.1", "10.0.0.2", "a.x"}
Dictionaries == UNION {[K -> DifferValues] : K \in SUBSET DifferKeys}

DifferInit ==
  /\ glpi = [n \in DevNames |-> NoDev]
  /\ zbx = [h \in Names |-> NoHost]
  /\ marker = Absent
  /\ now = 2
  /\ pc = "idle"
  /\ ResetRun
  /\ runNo = 0
  /\ events = 0
  /\ prev = NoPrev
  /\ \E current_dict \in Dictionaries, past_dict \in Dictionaries :
       differ = [NoDiffer EXCEPT !.current_dict = current_dict,
                                 !.past_dict = past_dict]

\* DictDiffer(current_dict, past_dict) followed by added(), removed(),
\* changed() and unchanged()
DictDiffer ==
  /\ ~differ.constructed
  /\ differ' =
       [differ EXCEPT
          !.constructed = TRUE,
          !.added = DictDiffer_added(differ.current_dict, differ.past_dict),
          !.removed = DictDiffer_removed(differ.current_dict, differ.past_dict),
          !.changed = DictDiffer_changed(differ.current_dict, differ.past_dict),
          !.unchanged = DictDiffer_unchanged(differ.current_dict, differ.past_dict)]
  /\ UNCHANGED <<glpi, zbx, marker, now, pc, planVars, applyVars, calls, runNo,
                 events, prev>>

DifferNext == DictDiffer

DifferSpec == DifferInit /\ [][DifferNext]_vars

\* ------------------------------------------------------------ properties
AfterPlan == pc \in {"delete", "delcall", "create", "update", "done"}
BeforeFinish == pc \in {"move", "delete", "delcall", "create", "update"}
MarkerAtStart ==
  IF prev.marker = Absent THEN LAST_IMPORT_FILE_MAGIC_TUPLE ELSE prev.marker
DeletedNames == UNION calls.delete
NoMutatingCall ==
  ListLen(calls.create) = 0 /\ calls.update = {} /\ calls.delete = {}
SourceUntouched == ~prev.src_changed /\ ~calls.src_changed
\* the host names the source record n expands into
ExpansionNames(n) ==
  IF n \in DOMAIN global_no_sort
  THEN {get_item_parameters(n).items[i].host_name :
          i \in 1..Len(get_item_parameters(n).items)}
  ELSE {}
\* the target host n differs from its source record in an updated category
Disagrees(n) ==
  /\ zbx[n] # NoHost
  /\ n \in DevNames
  /\ Len(get_item_parameters(n).items) = 1
  /\ differences(get_item_parameters(n).items[1], get_params_zbx_host(n)) # {}

\* C1: a run that follows a completed run, with no change to the source in
\* between, issues no create, update or delete call and leaves the marker
\* as the first run left it.  Stated for the behaviours without any event of
\* the environment (events = 0): every call of both runs is answered and
\* nobody else changes the source or the target.
C1_SecondRunIdle ==
  (pc = "done" /\ prev.status = "done" /\ SourceUntouched /\ events = 0)
    => (NoMutatingCall /\ marker = prev.marker)

\* C2: while the delete list is empty, the run has issued neither the
\* name-to-id lookup nor a host.delete call.
C2_EmptyDeleteGuard ==
  ListLen(global_to_delete) = 0 => (calls.lookup = 0 /\ calls.delete = {})

\* the correction emptied a delete list that held "h1---h2", and the run
\* went on to the create phase
C2_Witness ==
  /\ pc = "create"
  /\ ListLen(global_to_delete) = 0
  /\ <<"h1", "h2">> \in zabbix_hosts_list["p1"]
  /\ calls.lookup = 0

\* C3: host.delete is never called with an empty list of ids.
C3_NoEmptyDelete == {} \notin calls.delete

\* C4: once the moves are resolved, no name is on two of the lists
\* global_to_create, global_to_delete, global_to_update.
C4_PlanDisjoint ==
  AfterPlan =>
    /\ ListSet(global_to_create) \cap ListSet(global_to_delete) = {}
    /\ ListSet(global_to_create) \cap ListSet(global_to_update) = {}
    /\ ListSet(global_to_delete) \cap ListSet(global_to_update) = {}

\* the three lists are non-empty and a moved host is on the update list
C4_Witness ==
  /\ pc = "delete"
  /\ ListSet(global_to_create) # {}
  /\ ListSet(global_to_delete) # {}
  /\ \E n \in ListSet(global_to_update) :
       n \in DOMAIN proxies_with_hosts["p1"] /\ n \in zabbix_hosts_list["p2"]

\* C5: a name that the source has in one known proxy and the target in
\* another is on the update list, on neither other list, and no create or
\* delete call is issued for it.
C5_MoveDetection ==
  \A n \in Names : \A p1 \in KnownProxies : \A p2 \in KnownProxies \ {p1} :
    (AfterPlan /\ n \in DOMAIN proxies_with_hosts[p1]
               /\ n \in zabbix_hosts_list[p2])
      => /\ n \in ListSet(global_to_update)
         /\ n \notin ListSet(global_to_create)
         /\ n \notin ListSet(global_to_delete)
         /\ calls.create[n] = 0
         /\ n \notin DeletedNames

\* a run ended in which "h1" had moved from zbx-p2 to zbx-p1, other hosts
\* were created and deleted, and the proxy of "h1" was updated
C5_Witness ==
  /\ pc = "done"
  /\ <<"h1">> \in DOMAIN proxies_with_hosts["p1"]
  /\ <<"h1">> \in zabbix_hosts_list["p2"]
  /\ <<<<"h1">>, "zbx_proxy">> \in calls.update
  /\ ListLen(calls.create) > 0
  /\ DeletedNames # {}

\* C6: a name that source and target have in the same proxy is on the
\* update list exactly if its date_mod is later than the marker.
C6_Staleness ==
  \A p \in KnownProxies : \A n \in Names :
    (BeforeFinish /\ n \in DOMAIN proxies_with_hosts[p]
                  /\ n \in zabbix_hosts_list[p])
      => (n \in ListSet(global_to_update)
            <=> proxies_with_hosts[p][n].date_mod > marker)

\* one shared name modified exactly at the marker is left out while another,
\* modified later, is taken
C6_Witness ==
  /\ pc = "move"
  /\ \E p \in KnownProxies : \E n \in DOMAIN proxies_with_hosts[p] :
       /\ n \in zabbix_hosts_list[p]
       /\ proxies_with_hosts[p][n].date_mod = marker
       /\ n \notin ListSet(global_to_update)
  /\ \E p \in KnownProxies : \E n \in DOMAIN proxies_with_hosts[p] :
       /\ n \in zabbix_hosts_list[p]
       /\ proxies_with_hosts[p][n].date_mod > marker
       /\ n \in ListSet(global_to_update)

\* C7: the step that ends a run writes the marker (sets it to the current
\* time) exactly if one of the three counters is not zero, and otherwise
\* leaves it as it was.
C7_CounterGatedMarker ==
  [][(pc = "update" /\ pc' = "done") =>
       IF created_hosts_counter # 0 \/ deleted_hosts_counter # 0
          \/ updated_hosts_counter # 0
       THEN marker' = now /\ marker' # marker
       ELSE marker' = marker]_vars

\* a run ended that only updated, and the marker was written
C7_Witness ==
  /\ pc = "done"
  /\ created_hosts_counter = 0 /\ deleted_hosts_counter = 0
  /\ updated_hosts_counter > 0
  /\ marker # MarkerAtStart

\* C8: a run moves the marker only if a mutating call of the run succeeded
\* at the target.
C8_MarkerNeedsSuccess ==
  (pc = "done" /\ marker # MarkerAtStart) => calls.succeeded > 0

\* C9: once a completed run has left behind a host whose update call failed
\* and which differs from its source record, and from then on no call fails
\* and nobody changes the source or the target (the events are used up), a
\* later run has the host on its update list, or the host agrees with its
\* source record.
C9_FailedUpdateLeft(n) ==
  pc = "done" /\ n \in calls.failed /\ Disagrees(n) /\ events = MaxEvents
C9_Retried(n) ==
  \/ pc = "delete" /\ n \in ListSet(global_to_update)
  \/ ~Disagrees(n)
C9_Converges == \A n \in Names : C9_FailedUpdateLeft(n) ~> C9_Retried(n)

\* the parts of a composite name, as names
Parts(c) == {<<c[i]>> : i \in 1..Len(c)}
CorrectionStep == pc = "delete" /\ pc' = "delcall"
DeleteStep == pc = "delcall" /\ calls'.delete # calls.delete
\* for a composite candidate host1---host2 whose host1 re-expands to
\* "host1": host1 leaves the delete list and host2 stays on it
C10_FirstPartKept ==
  \A c \in check_del_list :
    <<c[1]>> \in ExpansionNames(<<c[1]>>)
      => /\ <<c[1]>> \notin ListSet(global_to_delete')
         /\ <<c[2]>> \in ListSet(global_to_delete)
              => <<c[2]>> \in ListSet(global_to_delete')

Yielded == UNION {ExpansionNames(<<c[1]>>) : c \in check_del_list}

C11_DeleteFailureIsolated == [][pc = "delcall" => pc' # "crashed"]_vars

\* C12: when the create phase has run over the records it fetched, a create
\* call has been made for every record that passes the validation and
\* whose group, template and proxy Zabbix knows, whatever happened to the
\* other records.
C12_CreateFailureIsolated ==
  [][(pc = "create" /\ pc' # "create") =>
       \A i \in 1..Len(global_temp_list') :
         (~SkipsCreate(global_temp_list'[i])
            /\ ~CreateKeyError(global_temp_list'[i]))
           => calls'.create[global_temp_list'[i].host_name] > 0]_vars

\* the entity n of the update list was handled in this step, and both of
\* its records could be fetched
C13_Handled(n) ==
  /\ update_rest'[n] < update_rest[n]
  /\ n \in DOMAIN global_no_sort
  /\ zbx[n] # NoHost
  /\ get_item_parameters(n).error = "none"
  /\ Len(get_item_parameters(n).items) = 1

\* C13: in the update phase, a step that fails for one entity leaves no
\* later entity of the update list unhandled, and for a handled entity an
\* update call is made for every changed category whose new value Zabbix
\* knows, whatever happened to its other categories.
C13_UpdateFailureIsolated ==
  [][pc = "update" =>
       /\ pc' = "crashed" => ListLen(update_rest') = 0
       /\ \A n \in Names :
            C13_Handled(n) =>
              \A c \in differences(get_item_parameters(n).items[1],
                                   get_params_zbx_host(n)) :
                ~UpdateKeyError(get_item_parameters(n).items[1], c)
                  => <<n, c>> \in calls'.update]_vars

\* C14: no step adds more to the created counter than hosts came into being
\* at the target in it, more to the deleted counter than hosts went away, or
\* more to the updated counter than hosts were changed.
C14_AccurateCounters ==
  [][/\ created_hosts_counter' - created_hosts_counter
          <= Cardinality({h \in Names : zbx[h] = NoHost /\ zbx'[h] # NoHost})
     /\ deleted_hosts_counter' - deleted_hosts_counter
          <= Cardinality({h \in Names : zbx[h] # NoHost /\ zbx'[h] = NoHost})
     /\ updated_hosts_counter' - updated_hosts_counter
          <= Cardinality({h \in Names : zbx[h] # NoHost /\ zbx'[h] # NoHost
                                         /\ zbx'[h] # zbx[h]})]_vars

\* the entity n is taken from the update list in this step, and its source
\* record (one record) and its target record are there to compare
C15_Compared(n) ==
  /\ pc = "update"
  /\ update_rest'[n] < update_rest[n]
  /\ n \in DOMAIN global_no_sort
  /\ zbx[n] # NoHost
  /\ get_item_parameters(n).error = "none"
  /\ Len(get_item_parameters(n).items) = 1

\* C15: an entity is on the update list once, and handling it issues an
\* update call for exactly the categories in which its source record and
\* its target record differ.
C15_UpdateOnlyChanged ==
  [][\A n \in Names :
       C15_Compared(n) =>
         /\ update_rest[n] = 1
         /\ \A c \in Categories :
              <<n, c>> \in calls'.update
                <=> ( /\ <<n, c>> \notin calls.update
                      /\ get_item_parameters(n).items[1][c]
                           # get_params_zbx_host(n)[c] )]_vars

\* C16: the four sets of a DictDiffer are pairwise disjoint and cover the keys
\* of both dictionaries; added are the keys of the current dictionary only,
\* removed those of the past one only, changed the common keys with different
\* values, unchanged the common keys with equal values.  For
\* {ip: 10.0.0.1, dns: a.x} against {ip: 10.0.0.2, dns: a.x}, changed is
\* {ip} and unchanged is {dns}.
C16_FieldDiffer ==
  differ.constructed =>
    LET cur == differ.current_dict
        past == differ.past_dict
    IN /\ differ.added \cap differ.removed = {}
       /\ differ.added \cap differ.changed = {}
       /\ differ.added \cap differ.unchanged = {}
       /\ differ.removed \cap differ.changed = {}
       /\ differ.removed \cap differ.unchanged = {}
       /\ differ.changed \cap differ.unchanged = {}
       /\ differ.added \cup differ.removed \cup differ.changed \cup differ.unchanged
            = DOMAIN cur \cup DOMAIN past
       /\ \A k \in DifferKeys :
            /\ k \in differ.added <=> (k \in DOMAIN cur /\ k \notin DOMAIN past)
            /\ k \in differ.removed <=> (k \in DOMAIN past /\ k \notin DOMAIN cur)
            /\ k \in differ.changed
                 <=> (k \in DOMAIN cur /\ k \in DOMAIN past /\ cur[k] # past[k])
            /\ k \in differ.unchanged
                 <=> (k \in DOMAIN cur /\ k \in DOMAIN past /\ cur[k] = past[k])
       /\ ( /\ cur = [ip |-> "10.0.0.1", dns |-> "a.x"]
            /\ past = [ip |-> "10.0.0.2", dns |-> "a.x"] )
            => (differ.changed = {"ip"} /\ differ.unchanged = {"dns"})
\* the example of C16 has gone through the constructor
C16_Witness ==
  /\ differ.constructed
  /\ differ.current_dict = [ip |-> "10.0.0.1", dns |-> "a.x"]
  /\ differ.past_dict = [ip |-> "10.0.0.2", dns |-> "a.x"]
  /\ differ.changed # {}
  /\ differ.unchanged # {}

\* the host names the target holds under the proxy of partition p
C17_TargetOf(p) == {h \in Names : zbx[h] # NoHost /\ zbx[h].proxy = "zbx-" \o p}
\* C17: the partition loop reports every partition that has no counterpart
\* among the target's proxies and puts none of its source names on the create
\* list, while every other partition is split as usual: source-only names to
\* create, target-only names to delete, common names modified after the
\* marker to update.
C17_UnknownPartition ==
  [][(pc = "partition" /\ pc' = "move") =>
       \A p \in PROXY_LIST :
         IF "zbx-" \o p \in all_zabbix_proxies
         THEN /\ p \notin calls'.not_in_zabbix
              /\ \A n \in Names :
                   /\ (n \in DOMAIN proxies_with_hosts[p] /\ n \notin C17_TargetOf(p))
                        => global_to_create'[n] = 1
                   /\ (n \notin DOMAIN proxies_with_hosts[p] /\ n \in C17_TargetOf(p))
                        => global_to_delete'[n] = 1
                   /\ (n \in DOMAIN proxies_with_hosts[p] /\ n \in C17_TargetOf(p))
                        => (global_to_update'[n] = 1
                              <=> proxies_with_hosts[p][n].date_mod > marker)
         ELSE /\ p \in calls'.not_in_zabbix
              /\ \A n \in DOMAIN proxies_with_hosts[p] : global_to_create'[n] = 0]_vars
\* a partition without counterpart holds a source name, and another partition
\* has put a name on the create list
C17_Witness ==
  /\ pc = "move"
  /\ \E p \in PROXY_LIST :
       /\ p \in calls.not_in_zabbix
       /\ DOMAIN proxies_with_hosts[p] # {}
  /\ \E n \in Names : global_to_create[n] > 0

\* move resolution has put n on the update list although the source stamped
\* it no later than the marker
C18_MovedOld(n) ==
  \E p1 \in KnownProxies : \E p2 \in KnownProxies \ {p1} :
    /\ n \in DOMAIN proxies_with_hosts[p1]
    /\ n \in zabbix_hosts_list[p2]
    /\ proxies_with_hosts[p1][n].date_mod <= marker
\* the update loop has not reached n yet
C18_Awaits(n) ==
  \/ pc \in {"delete", "delcall", "create"}
  \/ pc = "update" /\ update_rest[n] > 0
\* C18: a name that move resolution put on the update list, modified no
\* later than the marker, stays on the list until the update loop takes it,
\* and the run does not end before the loop has taken it.
C18_MovedBypassStaleness ==
  [][\A n \in Names :
       (C18_MovedOld(n) /\ C18_Awaits(n)) =>
         /\ global_to_update[n] > 0
         /\ global_to_update'[n] > 0
         /\ \/ pc' \in {"delete", "delcall", "create", "update"} /\ C18_Awaits(n)'
            \/ pc = "update" /\ update_rest'[n] < update_rest[n]]_vars

\* C19: in a run that found no marker file, every name that source and
\* target hold in the same partition is on the update list, whenever the
\* source stamped it.
C19_FirstRunFullImport ==
  \A p \in KnownProxies : \A n \in Names :
    (BeforeFinish /\ prev.marker = Absent
                  /\ n \in DOMAIN proxies_with_hosts[p]
                  /\ n \in zabbix_hosts_list[p])
      => global_to_update[n] = 1
\* the first run, started without marker file, has planned the update of a
\* shared name that bears the earliest stamp, before the start of the run
C19_Witness ==
  /\ pc = "delete"
  /\ prev.marker = Absent
  /\ \E p \in KnownProxies : \E n \in DOMAIN proxies_with_hosts[p] :
       /\ n \in zabbix_hosts_list[p]
       /\ proxies_with_hosts[p][n].date_mod = 1
       /\ proxies_with_hosts[p][n].date_mod < now
       /\ global_to_update[n] = 1

\* the interfaces of device d
C20_Aliases(d) ==
  UNION {{k.ports[j] : j \in 1..Len(k.ports)} :
           k \in {glpi[d].ports[i] : i \in 1..Len(glpi[d].ports)}}
\* the interfaces without address of the devices on the create list
C20_NoAddress ==
  {a.name : a \in {b \in UNION {C20_Aliases(d) :
                                  d \in {e \in DevNames :
                                           /\ glpi[e] # NoDev
                                           /\ ~glpi[e].malformed
                                           /\ global_to_create[e] > 0}} :
                     b.ip = None}}
\* C20: the create phase issues no create call for a record without group or
\* template ("0"), for an interface without address, or for a record whose
\* parent name differs from its host name while it is not multi-interface;
\* it does not count such a record as created, and every record that comes
\* after it in the list and passes the validation gets its create call.
C20_CreateValidation ==
  [][(pc = "create" /\ pc' # "create") =>
       /\ \A n \in C20_NoAddress :
            /\ calls'.create[n] = 0
            /\ \A i \in 1..Len(global_temp_list') : global_temp_list'[i].host_name # n
       /\ \A i \in 1..Len(global_temp_list') :
            SkipsCreate(global_temp_list'[i]) =>
              /\ calls'.create[global_temp_list'[i].host_name] = 0
              /\ \A j \in (i + 1)..Len(global_temp_list') :
                   ~SkipsCreate(global_temp_list'[j])
                     => calls'.create[global_temp_list'[j].host_name] > 0
       /\ created_hosts_counter' - created_hosts_counter
            <= Cardinality({i \in 1..Len(global_temp_list') :
                              ~SkipsCreate(global_temp_list'[i])})]_vars

\* the port data that the source returns for the entity n is malformed
C21_Malformed(n) ==
  /\ n \in DOMAIN global_no_sort
  /\ glpi[n] # NoDev
  /\ glpi[n].malformed
\* C21: a step of the delete-set correction, of the create phase or of the
\* update phase that expands an entity with malformed port data does not end
\* the run.
C21_ExpansionFailureIsolated ==
  [][( \/ /\ pc = "delete"
          /\ HasItems(global_to_delete)
          /\ \E n \in splitted : C21_Malformed(n)
       \/ /\ pc = "create"
          /\ \E n \in Names : global_to_create[n] > 0 /\ C21_Malformed(n)
       \/ /\ pc = "update"
          /\ \E n \in Names : update_rest'[n] < update_rest[n] /\ C21_Malformed(n) )
       => pc' # "crashed"]_vars

\* C22: when a request to the source fails and ends the run, the run has
\* issued no delete, create or update call to the target.
C22_SourceErrorBeforeMutation ==
  [][GlpiRequestFails => NoMutatingCall]_vars

\* the source entity n of partition p expands into several derived records
C23_Several(n, p) ==
  /\ n \in DOMAIN proxies_with_hosts[p]
  /\ Cardinality(ExpansionNames(n)) > 1
\* the names the target held, under any proxy, when the plan was made
C23_TargetNames == UNION {zabbix_hosts_list[q] : q \in PROXY_LIST}
\* C23: when the create phase of a run is over, every derived name of a
\* source entity with several derived records has had its own decision, taken
\* by comparing the derived name with the host names of the target: it was
\* not deleted, a create call was issued for it exactly if the target did not
\* hold it, and it is on the update list exactly if the target held it in
\* the same partition and the entity was modified after the marker.
C23_PerDerivedName ==
  \A p \in KnownProxies : \A n \in Names :
    (pc \in {"update", "done"} /\ C23_Several(n, p)) =>
      \A d \in ExpansionNames(n) :
        /\ d \notin DeletedNames
        /\ calls.create[d] = IF d \in C23_TargetNames THEN 0 ELSE 1
        /\ d \in zabbix_hosts_list[p] =>
             (global_to_update[d] = 1
                <=> proxies_with_hosts[p][n].date_mod > MarkerAtStart)

\* C24: the list of records handed to the create phase holds no two records
\* with the same host name.
C24_DeduplicatedByName ==
  \A i \in 1..Len(global_temp_list) : \A j \in 1..Len(global_temp_list) :
    i # j => global_temp_list[i].host_name # global_temp_list[j].host_name

\* C25: no name occurs more than once on the create list, on the delete list
\* or on the update list, nor in what the update loop has still to handle.
C25_NoDoubleProcessing ==
  \A n \in Names :
    /\ global_to_update[n] <= 1
    /\ global_to_create[n] <= 1
    /\ global_to_delete[n] <= 1
    /\ update_rest[n] <= 1
\* a name that moved between partitions and was modified after the marker is
\* on the update list once, next to a name the staleness test selected, and
\* the update loop has begun
C25_Witness ==
  /\ pc = "update"
  /\ \E n \in Names : \E m \in Names \ {n} :
       /\ \E p1 \in KnownProxies : \E p2 \in KnownProxies \ {p1} :
            /\ n \in DOMAIN proxies_with_hosts[p1]
            /\ n \in zabbix_hosts_list[p2]
            /\ proxies_with_hosts[p1][n].date_mod > marker
       /\ global_to_update[n] = 1
       /\ update_rest[n] = 1
       /\ \E p \in KnownProxies :
            m \in DOMAIN proxies_with_hosts[p] /\ m \in zabbix_hosts_list[p]
       /\ global_to_update[m] = 1

\* C26: a step that issues a delete call finds no create and no update call
\* issued in its run, a step that issues create calls finds no update call
\* issued, and the delete call is reached only through the delete-set
\* correction.
C26_PhaseOrdering ==
  [][/\ calls'.delete \ calls.delete # {} =>
          /\ pc = "delcall"
          /\ ListLen(calls.create) = 0 /\ ListLen(calls'.create) = 0
          /\ calls.update = {} /\ calls'.update = {}
     /\ (\E n \in Names : calls'.create[n] > calls.create[n]) =>
          /\ pc = "create"
          /\ calls.update = {} /\ calls'.update = {}
     /\ calls'.update \ calls.update # {} => pc = "update"
     /\ (pc' = "delcall" /\ pc # "delcall") => pc = "delete"]_vars
\* a run has ended that corrected a delete list with a composite name,
\* deleted, created and updated
C26_Witness ==
  /\ pc = "done"
  /\ \E ids \in calls.delete : ids # {}
  /\ check_del_list # {}
  /\ ListLen(calls.create) > 0
  /\ calls.update # {}

\* a step in which the script reads data from the source
C27_SourceRead ==
  \/ pc = "export" /\ pc' # "export"
  \/ pc = "delete" /\ HasItems(global_to_delete) /\ check_del_list # {}
                   /\ pc' # "delete"
  \/ pc = "create" /\ HasItems(global_to_create) /\ pc' # "create"
  \/ pc = "update" /\ \E n \in Names : update_rest'[n] < update_rest[n]
\* a step in which the script issues a mutating call to the target
C27_Mutation ==
  \/ calls'.delete \ calls.delete # {}
  \/ \E n \in Names : calls'.create[n] > calls.create[n]
  \/ calls'.update \ calls.update # {}
\* C27: a mutating call is issued only when the partition loop and the move
\* resolution are over, and a step that reads the source finds no mutating
\* call issued in its run.
C27_PlanBeforeMutation ==
  [][/\ C27_Mutation => pc \in {"delcall", "create", "update"}
     /\ C27_SourceRead => NoMutatingCall]_vars

\* the source record n, which the target holds, was modified after the run
\* took its snapshot, and the run had no reason to handle it
C28_ModifiedAfterCapture(n) ==
  /\ n \in DOMAIN global_no_sort
  /\ glpi[n] # NoDev
  /\ glpi[n].date_mod > global_no_sort[n].date_mod
  /\ zbx[n] # NoHost
  /\ global_to_update[n] = 0
  /\ global_to_create[n] = 0
\* C28: when the last step of a run advances the marker, every source record
\* modified after the run took its snapshot bears a date_mod later than the
\* new marker, so that the next run selects it.
C28_NoLostSourceChange ==
  [][(pc = "update" /\ pc' = "done" /\ marker' # marker) =>
       \A n \in Names : C28_ModifiedAfterCapture(n) => glpi[n].date_mod > marker']_vars

\* C29: no host whose name is a name of the filtered source snapshot is given
\* to the delete call.
C29_NeverDeleteSourceName ==
  [][\A ids \in calls'.delete \ calls.delete : ids \cap DOMAIN global_no_sort = {}]_vars

\* the records of global_temp_list that come from the source entity n
C30_RecordsOf(n) ==
  {i \in 1..Len(global_temp_list) : global_temp_list[i].name = n}
\* C30: every record that get_item_parameters has derived for the create
\* phase bears multi_interface = TRUE exactly if its source entity yielded
\* more than one record.
C30_MultiInterfaceFlag ==
  \A i \in 1..Len(global_temp_list) :
    global_temp_list[i].multi_interface
      <=> Cardinality(C30_RecordsOf(global_temp_list[i].name)) > 1

\* C31: once the lookup of the target's proxies has failed in a run, no
\* partition is treated as known to the target (the partition loop reports
\* every partition as missing and puts no name on a list), the run issues no
\* lookup, delete, create or update call for a host, counts nothing, and the
\* marker stays as the run found it.
C31_FailedProxyLookupHarmless ==
  calls.proxy_error =>
    /\ KnownProxies = {}
    /\ pc \in {"move", "delete", "delcall", "create", "update", "done"}
         => calls.not_in_zabbix = PROXY_LIST
    /\ \A p \in PROXY_LIST : zabbix_hosts_list[p] = {}
    /\ \A n \in Names : /\ global_to_delete[n] = 0
                        /\ global_to_create[n] = 0
                        /\ global_to_update[n] = 0
    /\ NoMutatingCall /\ calls.lookup = 0 /\ calls.succeeded = 0
    /\ created_hosts_counter = 0 /\ deleted_hosts_counter = 0
    /\ updated_hosts_counter = 0
    /\ marker = MarkerAtStart
\* a run whose proxy lookup failed has ended, although the source held a name
\* the target lacks, the target a host the source lacks, and a name of both
\* was modified after the marker
C31_Witness ==
  /\ calls.proxy_error
  /\ pc = "done"
  /\ \E n \in DOMAIN global_no_sort : zbx[n] = NoHost
  /\ \E h \in Names : zbx[h] # NoHost /\ h \notin DOMAIN global_no_sort
  /\ \E n \in DOMAIN global_no_sort :
       zbx[n] # NoHost /\ global_no_sort[n].date_mod > marker

====
